---- MODULE Spec2Model ----
(***************************************************************************)
(* Model of the response transformation pipeline of ms-365-mcp-server:     *)
(* the content normaliser, body / entity / collection reducers and the     *)
(* dispatcher of src/src/response-optimizer.ts, and the tool handler with  *)
(* its pagination loop of src/src/graph-tools.ts.                          *)
(*                                                                         *)
(* A JavaScript string is a sequence of one-character strings.  A JSON     *)
(* object is a function from field names to values; an absent field is a   *)
(* name outside its DOMAIN.                                                *)
(***************************************************************************)
EXTENDS Integers, Sequences, FiniteSets, TLC

(***************************************************************************)
(* Strings                                                                 *)
(***************************************************************************)

\* Code points that have no ASCII spelling are named atoms.
NBSP == "U+00A0"
BOM == "U+FEFF"
CGJ == "U+034F"

\* The characters matched by \s in a JavaScript regular expression and
\* removed by String.prototype.trim (those the model's inputs can hold).
WhiteSpace == {" ", "\n", "\r", "\t", NBSP, BOM}

IsSpace(c) == c \in WhiteSpace

\* s[i], or "" when i is not an index of s.
At(s, i) == IF i >= 1 /\ i <= Len(s) THEN s[i] ELSE ""

\* Case folding of the i flag, for the letters the patterns hold.
Lower(c) ==
  CASE c = "A" -> "a" [] c = "B" -> "b" [] c = "C" -> "c" [] c = "D" -> "d"
    [] c = "G" -> "g" [] c = "I" -> "i" [] c = "M" -> "m" [] c = "P" -> "p"
    [] c = "R" -> "r" [] c = "S" -> "s" [] c = "T" -> "t" [] c = "V" -> "v"
    [] OTHER -> c

\* s holds lit at position i (case-sensitive).
HasAt(s, i, lit) ==
  /\ i >= 1
  /\ i + Len(lit) - 1 <= Len(s)
  /\ \A k \in 1..Len(lit) : s[i + k - 1] = lit[k]

\* s holds lit at position i, ignoring case (lit is lower case).
HasAtCI(s, i, lit) ==
  /\ i >= 1
  /\ i + Len(lit) - 1 <= Len(s)
  /\ \A k \in 1..Len(lit) : Lower(s[i + k - 1]) = lit[k]

\* String.prototype.includes
Includes(s, sub) == \E i \in 1..(Len(s) + 1) : HasAt(s, i, sub)

\* The first index >= k of s holding a character of C; 0 when there is none.
FirstIndex(s, k, C) ==
  LET I == {m \in k..Len(s) : m >= 1 /\ s[m] \in C}
  IN IF I = {} THEN 0 ELSE CHOOSE m \in I : \A x \in I : m <= x

\* The first index >= k of s that holds no white space (Len(s)+1 at the end).
SkipSpaces(s, k) ==
  LET I == {m \in k..Len(s) : m >= 1 /\ ~IsSpace(s[m])}
  IN IF I = {} THEN Len(s) + 1 ELSE CHOOSE m \in I : \A x \in I : m <= x

Max(S) == CHOOSE m \in S : \A x \in S : x <= m

\* String.prototype.trim
Trim(s) ==
  LET I == {m \in 1..Len(s) : ~IsSpace(s[m])}
  IN IF I = {} THEN <<>>
     ELSE SubSeq(s, CHOOSE m \in I : \A x \in I : m <= x, Max(I))

(***************************************************************************)
(* Literals of response-optimizer.ts                                       *)
(***************************************************************************)

TRUNCATED == <<".", ".", ".", "[", "T", "R", "U", "N", "C", "A", "T", "E", "D", "]">>
IMAGE_REMOVED == <<"[", "I", "M", "A", "G", "E", "_", "R", "E", "M", "O", "V", "E", "D", "]">>
ATTACHMENT_REMOVED == <<"[", "A", "T", "T", "A", "C", "H", "M", "E", "N", "T", "_", "R", "E", "M", "O", "V", "E", "D", "]">>

Quotes == {"\"", "'"}

(***************************************************************************)
(* Regular expressions.  MatchLen(rx, s, i) is the length of the match of  *)
(* pattern rx that starts at position i of s, 0 when there is none (no     *)
(* pattern of the file matches the empty string).                          *)
(***************************************************************************)

\* /<br\s*\/?>/gi
BrMatchLen(s, i) ==
  IF ~HasAtCI(s, i, <<"<", "b", "r">>) THEN 0
  ELSE LET j == SkipSpaces(s, i + 3)
           k == IF At(s, j) = "/" THEN j + 1 ELSE j
       IN IF At(s, k) = ">" THEN k - i + 1 ELSE 0

\* /<[^>]*>/g
TagMatchLen(s, i) ==
  IF At(s, i) # "<" THEN 0
  ELSE LET e == FirstIndex(s, i + 1, {">"})
       IN IF e = 0 THEN 0 ELSE e - i + 1

\* /\n\s*\n/g : from a newline to the last newline of the white space after it
BlankMatchLen(s, i) ==
  IF At(s, i) # "\n" THEN 0
  ELSE LET stop == SkipSpaces(s, i + 1)
           J == {j \in (i + 1)..(stop - 1) : s[j] = "\n"}
       IN IF J = {} THEN 0 ELSE Max(J) - i + 1

\* The end of a match of  src\s*=\s*["']<scheme>[^"']*["'][^>]*>  that starts
\* at j; 0 when there is none.
SrcMatchEnd(s, j, scheme) ==
  IF ~HasAtCI(s, j, <<"s", "r", "c">>) THEN 0
  ELSE LET a == SkipSpaces(s, j + 3)
           b == SkipSpaces(s, a + 1)
       IN IF At(s, a) # "=" \/ At(s, b) \notin Quotes \/ ~HasAtCI(s, b + 1, scheme)
          THEN 0
          ELSE LET c == FirstIndex(s, b + 1 + Len(scheme), Quotes)
               IN IF c = 0 THEN 0 ELSE FirstIndex(s, c + 1, {">"})

\* /<img[^>]*src\s*=\s*["']<scheme>[^"']*["'][^>]*>/gi : the greedy [^>]*
\* takes the last src that lets the rest match.
ImgMatchLen(s, i, scheme) ==
  IF ~HasAtCI(s, i, <<"<", "i", "m", "g">>) THEN 0
  ELSE LET gt == FirstIndex(s, i + 4, {">"})
           lim == IF gt = 0 THEN Len(s) ELSE gt - 1
           J == {j \in (i + 4)..lim : SrcMatchEnd(s, j, scheme) > 0}
       IN IF J = {} THEN 0 ELSE SrcMatchEnd(s, Max(J), scheme) - i + 1

LiteralMatchLen(s, i, lit) == IF HasAt(s, i, lit) THEN Len(lit) ELSE 0

LiteralCIMatchLen(s, i, lit) == IF HasAtCI(s, i, lit) THEN Len(lit) ELSE 0

MatchLen(rx, s, i) ==
  CASE rx = "br" -> BrMatchLen(s, i)
    [] rx = "closeP" -> LiteralCIMatchLen(s, i, <<"<", "/", "p", ">">>)
    [] rx = "closeDiv" -> LiteralCIMatchLen(s, i, <<"<", "/", "d", "i", "v", ">">>)
    [] rx = "tag" -> TagMatchLen(s, i)
    [] rx = "nbsp" -> LiteralMatchLen(s, i, <<"&", "n", "b", "s", "p", ";">>)
    [] rx = "amp" -> LiteralMatchLen(s, i, <<"&", "a", "m", "p", ";">>)
    [] rx = "lt" -> LiteralMatchLen(s, i, <<"&", "l", "t", ";">>)
    [] rx = "gt" -> LiteralMatchLen(s, i, <<"&", "g", "t", ";">>)
    [] rx = "quot" -> LiteralMatchLen(s, i, <<"&", "q", "u", "o", "t", ";">>)
    [] rx = "apos" -> LiteralMatchLen(s, i, <<"&", "#", "3", "9", ";">>)
    [] rx = "crlf" -> LiteralMatchLen(s, i, <<"\r", "\n">>)
    [] rx = "cr" -> LiteralMatchLen(s, i, <<"\r">>)
    [] rx = "blank" -> BlankMatchLen(s, i)
    [] rx = "dataImg" -> ImgMatchLen(s, i, <<"d", "a", "t", "a", ":">>)
    [] rx = "cidImg" -> ImgMatchLen(s, i, <<"c", "i", "d", ":">>)

\* String.prototype.replace with a global pattern: scan from the left, replace
\* each match and go on after it.
RECURSIVE ReplaceFrom(_, _, _, _)
ReplaceFrom(s, i, rx, repl) ==
  IF i > Len(s) THEN <<>>
  ELSE LET n == MatchLen(rx, s, i)
       IN IF n > 0 THEN repl \o ReplaceFrom(s, i + n, rx, repl)
          ELSE <<s[i]>> \o ReplaceFrom(s, i + 1, rx, repl)

ReplaceAll(s, rx, repl) == ReplaceFrom(s, 1, rx, repl)

(***************************************************************************)
(* Content normaliser                                                      *)
(***************************************************************************)

\* A chain of replace calls: each step <<pattern, replacement>> is applied to
\* the result of the one before.
RECURSIVE ReplaceChain(_, _, _)
ReplaceChain(s, steps, i) ==
  IF i > Len(steps) THEN s
  ELSE ReplaceChain(ReplaceAll(s, steps[i][1], steps[i][2]), steps, i + 1)

\* Lines 54-64: the tags, then the six entities.
MarkupStepsNoTags ==
  << <<"br", <<"\n">> >>,
     <<"closeP", <<"\n">> >>,
     <<"closeDiv", <<"\n">> >>,
     <<"nbsp", <<" ">> >>,
     <<"amp", <<"&">> >>,
     <<"lt", <<"<">> >>,
     <<"gt", <<">">> >>,
     <<"quot", <<"\"">> >>,
     <<"apos", <<"'">> >> >>

MarkupSteps ==
  << <<"br", <<"\n">> >>,
     <<"closeP", <<"\n">> >>,
     <<"closeDiv", <<"\n">> >>,
     <<"tag", <<>> >>,
     <<"nbsp", <<" ">> >>,
     <<"amp", <<"&">> >>,
     <<"lt", <<"<">> >>,
     <<"gt", <<">">> >>,
     <<"quot", <<"\"">> >>,
     <<"apos", <<"'">> >> >>

\* Lines 67-70: line ends and blank lines.
WhitespaceSteps ==
  << <<"crlf", <<"\n">> >>,
     <<"cr", <<"\n">> >>,
     <<"blank", <<"\n", "\n">> >> >>

stripHtmlTags(html) ==
  IF html = <<>> THEN <<>>
  ELSE Trim(ReplaceChain(html, MarkupSteps \o WhitespaceSteps, 1))

removeEmbeddedImages(html) ==
  IF html = <<>> THEN html ELSE ReplaceAll(html, "dataImg", IMAGE_REMOVED)

removeInlineAttachments(html) ==
  IF html = <<>> THEN html ELSE ReplaceAll(html, "cidImg", ATTACHMENT_REMOVED)

(***************************************************************************)
(* JSON objects                                                            *)
(***************************************************************************)

Has(obj, k) == k \in DOMAIN obj

\* obj[k] = v on a copy
Put(obj, k, v) == [x \in DOMAIN obj \cup {k} |-> IF x = k THEN v ELSE obj[x]]

\* delete obj[k] for every k of K, on a copy
Delete(obj, K) == [x \in DOMAIN obj \ K |-> obj[x]]

\* JSON null, where an object is expected: an object with a reserved field.
JNull == [null |-> TRUE]

IsNull(v) == Has(v, "null")

\* obj[k] is an object (not undefined, not null)
HasObject(obj, k) == Has(obj, k) /\ ~IsNull(obj[k])

(***************************************************************************)
(* Configuration                                                           *)
(***************************************************************************)

DefaultMaxHtmlContentSize == 2000
DefaultMaxItemsInCollection == 50

DefaultMailSelectFields ==
  << <<"i", "d">>,
     <<"s", "u", "b", "j", "e", "c", "t">>,
     <<"s", "e", "n", "d", "e", "r">>,
     <<"f", "r", "o", "m">>,
     <<"t", "o", "R", "e", "c", "i", "p", "i", "e", "n", "t", "s">>,
     <<"c", "c", "R", "e", "c", "i", "p", "i", "e", "n", "t", "s">>,
     <<"r", "e", "c", "e", "i", "v", "e", "d", "D", "a", "t", "e", "T", "i", "m", "e">>,
     <<"s", "e", "n", "t", "D", "a", "t", "e", "T", "i", "m", "e">>,
     <<"h", "a", "s", "A", "t", "t", "a", "c", "h", "m", "e", "n", "t", "s">>,
     <<"i", "m", "p", "o", "r", "t", "a", "n", "c", "e">>,
     <<"i", "s", "R", "e", "a", "d">>,
     <<"b", "o", "d", "y", "P", "r", "e", "v", "i", "e", "w">>,
     <<"b", "o", "d", "y">> >>

DEFAULT_LLM_OPTIMIZATION ==
  [ maxHtmlContentSize |-> DefaultMaxHtmlContentSize,
    stripHtmlToText |-> TRUE,
    removeEmbeddedImages |-> TRUE,
    removeInlineAttachments |-> TRUE,
    mailSelectFields |-> DefaultMailSelectFields,
    maxItemsInCollection |-> DefaultMaxItemsInCollection ]

(***************************************************************************)
(* Body reducer                                                            *)
(***************************************************************************)

\* Lines 107-110
MediaImages(content, config) ==
  IF config.removeEmbeddedImages THEN removeEmbeddedImages(content) ELSE content

\* Lines 107-115: media reduction, as configured.
ReduceMedia(content, config) ==
  IF config.removeInlineAttachments
  THEN removeInlineAttachments(MediaImages(content, config))
  ELSE MediaImages(content, config)

\* Lines 117-123: whether the tags are stripped, given the media-reduced content.
StripAppliesOnMarkupOnly(body, content, config) ==
  \/ config.stripHtmlToText
  \/ Len(content) > config.maxHtmlContentSize /\ Includes(content, <<"<">>)

StripApplies(body, content, config) ==
  /\ config.stripHtmlToText \/ Len(content) > config.maxHtmlContentSize
  /\ (Has(body, "contentType") /\ body.contentType = "html")
       \/ Includes(content, <<"<">>)

\* Lines 125-128: the size cap.
TruncateOff(content, config) ==
  IF Len(content) > config.maxHtmlContentSize + 1
  THEN SubSeq(content, 1, config.maxHtmlContentSize) \o TRUNCATED
  ELSE content

Truncate(content, config) ==
  IF Len(content) > config.maxHtmlContentSize
  THEN SubSeq(content, 1, config.maxHtmlContentSize) \o TRUNCATED
  ELSE content

\* Lines 125-130, on the body and the content of lines 117-123
CapContent(optimizedBody, content, config) ==
  Put(optimizedBody, "content", Truncate(content, config))

\* Lines 117-130, on the media-reduced content
StripAndCap(body, content, config) ==
  IF StripApplies(body, content, config)
  THEN CapContent(Put(body, "contentType", "text"), stripHtmlTags(content), config)
  ELSE CapContent(body, content, config)

optimizeMessageBody(body, config) ==
  IF Has(body, "content") /\ body.content # <<>>
  THEN StripAndCap(body, ReduceMedia(body.content, config), config)
  ELSE body

(***************************************************************************)
(* Entity reducer                                                          *)
(***************************************************************************)

DenylistWithoutFlag ==
  { "conversationId", "conversationIndex", "internetMessageId", "webLink",
    "changeKey", "parentFolderId", "inferenceClassification", "categories" }

Denylist ==
  { "conversationId", "conversationIndex", "internetMessageId", "webLink",
    "changeKey", "parentFolderId", "inferenceClassification", "flag",
    "categories" }

RecipientFields == {"toRecipients", "ccRecipients", "bccRecipients"}

SenderFields == {"sender", "from"}

\* { name: r.emailAddress?.name, address: r.emailAddress?.address }: a field
\* that comes out undefined is absent from the JSON value.
Flatten(r) ==
  IF Has(r, "emailAddress")
  THEN [k \in DOMAIN r.emailAddress \cap {"name", "address"} |-> r.emailAddress[k]]
  ELSE [k \in {} |-> <<>>]

\* Lines 145-147
ReduceBodyField(message, config) ==
  IF HasObject(message, "body")
  THEN Put(message, "body", optimizeMessageBody(message.body, config))
  ELSE message

\* Lines 161-178
SimplifyAddresses(optimized) ==
  [ f \in DOMAIN optimized |->
      IF f \in RecipientFields
      THEN [i \in 1..Len(optimized[f]) |-> Flatten(optimized[f][i])]
      ELSE IF f \in SenderFields /\ Has(optimized[f], "emailAddress")
      THEN Flatten(optimized[f])
      ELSE optimized[f] ]

optimizeMailMessage(message, config) ==
  SimplifyAddresses(Delete(ReduceBodyField(message, config), Denylist))

\* Lines 163-166: recipient.emailAddress of a recipient that is null is a
\* TypeError.
FlattenRaises(r) == IsNull(r)

\* Lines 161-168: the map over a recipient list raises.
optimizeMailMessageRaises(message) ==
  \E f \in DOMAIN message \cap RecipientFields :
    \E i \in 1..Len(message[f]) : FlattenRaises(message[f][i])

(***************************************************************************)
(* Collection reducer                                                      *)
(***************************************************************************)

\* JavaScript truthiness of a number
Truthy(n) == n # 0

COUNT == "@odata.count"
NEXTLINK == "@odata.nextLink"

\* Lines 193-197: the cap on the item list.
LimitItemsLast(items, config) ==
  IF Len(items) > config.maxItemsInCollection
  THEN SubSeq(items, Len(items) - config.maxItemsInCollection + 1, Len(items))
  ELSE items

LimitItems(items, config) ==
  IF Len(items) > config.maxItemsInCollection
  THEN SubSeq(items, 1, config.maxItemsInCollection)
  ELSE items

\* Line 200
MapItems(items, config) ==
  [i \in 1..Len(items) |-> optimizeMailMessage(items[i], config)]

\* Lines 203-205
UpdateCount(optimized) ==
  IF Has(optimized, COUNT) /\ Truthy(optimized[COUNT])
  THEN Put(optimized, COUNT, Len(optimized.value))
  ELSE optimized

optimizeMailCollection(response, config) ==
  IF Has(response, "value")
  THEN UpdateCount(Put(response, "value",
                       MapItems(LimitItems(response.value, config), config)))
  ELSE response

\* Line 200: the map over the items kept raises.
MapItemsRaises(items) ==
  \E i \in 1..Len(items) : optimizeMailMessageRaises(items[i])

optimizeMailCollectionRaises(response, config) ==
  /\ Has(response, "value")
  /\ MapItemsRaises(LimitItems(response.value, config))

(***************************************************************************)
(* Dispatcher                                                              *)
(***************************************************************************)

MESSAGES == <<"/", "m", "e", "s", "s", "a", "g", "e", "s">>
MAIL == <<"m", "a", "i", "l">>

\* Line 229: the endpoint test of optimizeResponse.
IsMailLike(endpoint) == Includes(endpoint, MESSAGES) \/ Includes(endpoint, MAIL)

\* Line 233: response.subject || response.body
SubjectOrBody(response) ==
  \/ Has(response, "subject") /\ response.subject # <<>>
  \/ HasObject(response, "body")

optimizeResponse(response, endpoint, config) ==
  IF IsMailLike(endpoint)
  THEN IF Has(response, "value")
       THEN optimizeMailCollection(response, config)
       ELSE IF SubjectOrBody(response)
       THEN optimizeMailMessage(response, config)
       ELSE response
  ELSE response

optimizeResponseRaises(response, endpoint, config) ==
  /\ IsMailLike(endpoint)
  /\ IF Has(response, "value")
     THEN optimizeMailCollectionRaises(response, config)
     ELSE SubjectOrBody(response) /\ optimizeMailMessageRaises(response)

(***************************************************************************)
(* Tool handler: the request path (graph-tools.ts, lines 163-262)          *)
(***************************************************************************)

\* encodeURIComponent, for the characters the model's strings hold
EncodeChar(c) ==
  CASE c = "$" -> <<"%", "2", "4">>
    [] c = "," -> <<"%", "2", "C">>
    [] c = " " -> <<"%", "2", "0">>
    [] c = "@" -> <<"%", "4", "0">>
    [] c = "/" -> <<"%", "2", "F">>
    [] c = "=" -> <<"%", "3", "D">>
    [] c = ":" -> <<"%", "3", "A">>
    [] c = "{" -> <<"%", "7", "B">>
    [] c = "}" -> <<"%", "7", "D">>
    [] OTHER -> <<c>>

\* Each character encoded, the results concatenated (by halves).
RECURSIVE encodeURIComponent(_)
encodeURIComponent(s) ==
  IF Len(s) = 0 THEN <<>>
  ELSE IF Len(s) = 1 THEN EncodeChar(s[1])
  ELSE LET h == Len(s) \div 2
       IN encodeURIComponent(SubSeq(s, 1, h)) \o encodeURIComponent(SubSeq(s, h + 1, Len(s)))

\* Array.prototype.join
RECURSIVE Join(_, _)
Join(parts, sep) ==
  IF parts = <<>> THEN <<>>
  ELSE IF Len(parts) = 1 THEN parts[1]
  ELSE parts[1] \o sep \o Join(Tail(parts), sep)

getOptimizedMailSelect(config) == Join(config.mailSelectFields, <<",">>)

\* String.prototype.replace with a string pattern: the first occurrence only.
ReplaceFirst(s, pat, repl) ==
  LET I == {i \in 1..Len(s) : HasAt(s, i, pat)}
  IN IF I = {} THEN s
     ELSE LET i == CHOOSE m \in I : \A x \in I : m <= x
          IN SubSeq(s, 1, i - 1) \o repl \o SubSeq(s, i + Len(pat), Len(s))

ToLowerCase(s) == [i \in DOMAIN s |-> Lower(s[i])]

odataParams ==
  { <<"f", "i", "l", "t", "e", "r">>, <<"s", "e", "l", "e", "c", "t">>,
    <<"e", "x", "p", "a", "n", "d">>, <<"o", "r", "d", "e", "r", "b", "y">>,
    <<"s", "k", "i", "p">>, <<"t", "o", "p">>, <<"c", "o", "u", "n", "t">>,
    <<"s", "e", "a", "r", "c", "h">>, <<"f", "o", "r", "m", "a", "t">> }

\* params[name] is set and truthy; params is the list of the caller's
\* <<name, value>> entries other than fetchAllPages.
ParamGiven(params, name) ==
  \E i \in 1..Len(params) : params[i][1] = name /\ params[i][2] # <<>>

\* queryParams[key] = value : an existing key keeps its place.
SetQuery(query, key, value) ==
  IF \E i \in 1..Len(query) : query[i][1] = key
  THEN [i \in 1..Len(query) |-> IF query[i][1] = key THEN <<key, value>> ELSE query[i]]
  ELSE Append(query, <<key, value>>)

\* Line 169
IsMailEndpoint(tool) == Includes(tool.path, MESSAGES) \/ Includes(tool.alias, MAIL)

\* Lines 170-189: the query parameters set before the caller's.
AutoQuery(tool, params, fetchAll, config) ==
  LET q1 == IF IsMailEndpoint(tool) /\ ~ParamGiven(params, <<"s", "e", "l", "e", "c", "t">>)
            THEN <<  << <<"$", "s", "e", "l", "e", "c", "t">>, getOptimizedMailSelect(config) >>  >>
            ELSE <<>>
  IN IF IsMailEndpoint(tool) /\ fetchAll /\ ~ParamGiven(params, <<"t", "o", "p">>)
     THEN Append(q1, << <<"$", "t", "o", "p">>, <<"9", "9", "9">> >>)
     ELSE q1

\* Lines 210-242: one caller parameter, on st = [path, query].
ApplyParam(tool, st, name, value) ==
  LET fixedParamName == IF ToLowerCase(name) \in odataParams
                        THEN <<"$">> \o ToLowerCase(name) ELSE name
      defs == {i \in 1..Len(tool.parameters) : tool.parameters[i].name = name}
  IN IF defs = {} THEN st
     ELSE LET paramDef == tool.parameters[CHOOSE i \in defs : \A x \in defs : i <= x]
          IN CASE paramDef.type = "Path" ->
                    [st EXCEPT !.path =
                       ReplaceFirst(
                         ReplaceFirst(@, <<"{">> \o name \o <<"}">>, encodeURIComponent(value)),
                         <<":">> \o name, encodeURIComponent(value))]
               [] paramDef.type = "Query" ->
                    [st EXCEPT !.query = SetQuery(@, fixedParamName, value)]
               [] OTHER -> st

RECURSIVE ApplyParams(_, _, _, _)
ApplyParams(tool, st, params, i) ==
  IF i > Len(params) THEN st
  ELSE ApplyParams(tool, ApplyParam(tool, st, params[i][1], params[i][2]), params, i + 1)

\* Lines 257-262
QueryString(query) ==
  Join([i \in 1..Len(query) |->
          encodeURIComponent(query[i][1]) \o <<"=">> \o encodeURIComponent(query[i][2])],
       <<"&">>)

\* The path the request is made to, and the endpoint handed to optimizeResponse.
RequestPath(tool, params, fetchAll, config) ==
  LET st == ApplyParams(tool,
                        [path |-> tool.path, query |-> AutoQuery(tool, params, fetchAll, config)],
                        params, 1)
  IN IF Len(st.query) > 0
     THEN st.path \o (IF Includes(st.path, <<"?">>) THEN <<"&">> ELSE <<"?">>)
            \o QueryString(st.query)
     ELSE st.path

(***************************************************************************)
(* The Graph server, as the handler sees it through graphClient            *)
(***************************************************************************)

\* Bounds of the model
MaxPerPage == 2
MaxShortChain == 4
MaxSpecial == 3
SmallMaxItems == 2

\* Line 314: if (pageCount > 100)
MaxPages == 100

\* Line 381: maxItemsInCollection: 10000
FetchAllPagesMaxItems == 10000

\* A continuation token is the number of the page it leads to; two values
\* stand for a link that is the empty string and one that is no URL.
EmptyToken == 0
NotAUrl == -1

EmptyObject == [k \in {} |-> TRUE]

\* The items of page k: k modulo (MaxPerPage + 1) of them, the first one with
\* a field the entity reducer removes.
PageItems(k) ==
  [i \in 1..(k % (MaxPerPage + 1)) |->
     IF i = 1 THEN [id |-> <<k, i>>, conversationId |-> k] ELSE [id |-> <<k, i>>]]

KindOf(srv, k) == IF k = srv.spPos THEN srv.spKind ELSE "page"

\* The JSON document of page k.
Page(srv, k) ==
  LET kind == KindOf(srv, k)
      p1 == IF kind = "noItems" \/ (k = 1 /\ ~srv.firstHasValue)
            THEN EmptyObject ELSE Put(EmptyObject, "value", PageItems(k))
      p2 == IF k = 1 /\ srv.count # <<>> THEN Put(p1, COUNT, srv.count[1]) ELSE p1
  IN CASE kind = "badLink" -> Put(p2, NEXTLINK, NotAUrl)
       [] kind = "emptyLink" -> Put(p2, NEXTLINK, EmptyToken)
       [] OTHER -> IF srv.endless \/ k < srv.len THEN Put(p2, NEXTLINK, k + 1) ELSE p2

\* What graphClient.graphRequest gives for page k: a response whose
\* content[0].text is a JSON document, a response without content, or a throw.
Respond(srv, k) ==
  CASE KindOf(srv, k) = "throws" -> [kind |-> "throws"]
    [] KindOf(srv, k) = "empty" -> [kind |-> "empty"]
    [] OTHER -> [kind |-> "json", json |-> Page(srv, k)]

(***************************************************************************)
(* Tool handler: pagination and delivery (graph-tools.ts, lines 282-415)   *)
(***************************************************************************)

\* combinedResponse['@odata.nextLink'], <<>> when undefined
LinkOfSkip(page) == IF Has(page, NEXTLINK) THEN <<page[NEXTLINK] + 1>> ELSE <<>>

LinkOf(page) == IF Has(page, NEXTLINK) THEN <<page[NEXTLINK]>> ELSE <<>>

\* while (nextLink)
TruthyLink(link) == link # <<>> /\ link[1] # EmptyToken

\* new URL(nextLink) does not throw
IsUrl(token) == token >= 1

\* Lines 308-310
AppendItemsFront(allItems, page) ==
  IF Has(page, "value") THEN page.value \o allItems ELSE allItems

AppendItems(allItems, page) ==
  IF Has(page, "value") THEN allItems \o page.value ELSE allItems

\* Line 314
LimitReachedLate(pageCount) == pageCount > MaxPages + 1

LimitReached(pageCount) == pageCount > MaxPages

\* Lines 324-326
MergedCount(combined) ==
  IF Has(combined, COUNT) /\ Truthy(combined[COUNT])
  THEN Put(combined, COUNT, Len(combined.value))
  ELSE combined

\* Lines 323-327
Merged(combined, items) ==
  Delete(MergedCount(Put(combined, "value", items)), {NEXTLINK})

\* Lines 377-384: the configuration of the dispatch.
DispatchConfig(config, fetchAll, isMail) ==
  IF fetchAll /\ isMail
  THEN [config EXCEPT !.maxItemsInCollection = FetchAllPagesMaxItems]
  ELSE config

\* optimizeResponse returns a new object (optimizedResponse !== jsonResponse)
Reduces(response, endpoint) ==
  /\ IsMailLike(endpoint)
  /\ Has(response, "value") \/ SubjectOrBody(response)

\* Lines 386-396, with the configuration of the dispatch
Delivered(json, endpoint, config) ==
  [ json |-> optimizeResponse(json, endpoint, config),
    reformatted |-> Reduces(json, endpoint),
    isError |-> FALSE ]

\* Lines 397-399: an exception in the try block leaves the text as it is.
Caught(json) == [json |-> json, reformatted |-> FALSE, isError |-> FALSE]

\* Lines 368-415: the content item returned for a text that is a JSON document.
Deliver(json, endpoint, config, fetchAll, isMail) ==
  IF optimizeResponseRaises(json, endpoint, DispatchConfig(config, fetchAll, isMail))
  THEN Caught(json)
  ELSE Delivered(json, endpoint, DispatchConfig(config, fetchAll, isMail))

VARIABLES
  tool,             \* the endpoint of the tool: alias, path, parameters
  params,           \* the caller's parameters other than fetchAllPages
  fetchAllPages,    \* params.fetchAllPages === true
  config,           \* effectiveOptimizationConfig
  srv,              \* the chain of pages the server holds
  pc,               \* where the handler is: start, awaitFirst, awaitNext, done
  path,             \* the request path
  isMailEndpoint,
  text,             \* response.content[0].text, as the JSON document it holds
  combinedResponse,
  allItems,
  nextLink,
  pageCount,
  walk,             \* none, FETCHING, DONE, ABORTED, FAILED
  fetchLog,         \* the tokens of the continuation fetches, in order
  result            \* the content item returned to the caller

\* The variables of the checks of the reducers as functions (see SpecReduce
\* and SpecText below); the handler leaves them alone.
VARIABLES
  op,               \* the function applied so far: none, then its name
  arg,              \* its input
  res,              \* its result
  res2              \* the result of applying it to res again

hvars ==
  << tool, params, fetchAllPages, config, srv, pc, path, isMailEndpoint, text,
     combinedResponse, allItems, nextLink, pageCount, walk, fetchLog, result >>

fvars == <<op, arg, res, res2>>

vars == <<hvars, fvars>>

ToolMail ==
  [ alias |-> <<"l", "i", "s", "t", "-", "m", "a", "i", "l", "-", "m", "e", "s", "s", "a", "g", "e", "s">>,
    path |-> <<"/", "m", "e", "/", "m", "e", "s", "s", "a", "g", "e", "s">>,
    parameters |-> << [name |-> <<"f", "i", "l", "t", "e", "r">>, type |-> "Query"] >> ]

ToolUsers ==
  [ alias |-> <<"l", "i", "s", "t", "-", "u", "s", "e", "r", "s">>,
    path |-> <<"/", "u", "s", "e", "r", "s">>,
    parameters |-> << [name |-> <<"f", "i", "l", "t", "e", "r">>, type |-> "Query"] >> ]

ToolEvents ==
  [ alias |-> <<"l", "i", "s", "t", "-", "u", "s", "e", "r", "-", "e", "v", "e", "n", "t", "s">>,
    path |-> <<"/", "u", "s", "e", "r", "s", "/", "{", "i", "d", "}", "/", "e", "v", "e", "n", "t", "s">>,
    parameters |-> << [name |-> <<"i", "d">>, type |-> "Path"] >> ]

Tools == {ToolMail, ToolUsers, ToolEvents}

\* The parameter lists a caller can give to a tool.
ParamsOf(t) ==
  IF t = ToolEvents
  THEN { << << <<"i", "d">>, <<"b", "o", "b">> >> >>,
         << << <<"i", "d">>, <<"a", "@", "m", "a", "i", "l", ".", "i", "o">> >> >> }
  ELSE { <<>>,
         << << <<"f", "i", "l", "t", "e", "r">>,
               <<"m", "a", "i", "l", " ", "n", "e", " ", "n", "u", "l", "l">> >> >> }

Configs ==
  { [DEFAULT_LLM_OPTIMIZATION EXCEPT !.maxItemsInCollection = n] :
      n \in {SmallMaxItems, DefaultMaxItemsInCollection} }

ChainLengths == (1..MaxShortChain) \cup ((MaxPages - 1)..(MaxPages + 1))

SpecialKinds == {"noItems", "throws", "empty", "badLink", "emptyLink"}

Servers ==
  { [len |-> n, endless |-> e, spPos |-> sp, spKind |-> k, firstHasValue |-> v, count |-> c] :
      n \in ChainLengths, e \in BOOLEAN, sp \in 0..MaxSpecial, k \in SpecialKinds \cup {"page"},
      v \in BOOLEAN, c \in {<<>>, <<0>>, <<7>>} }

\* The chains the model starts from: an endless chain has no length, a
\* special page lies on the chain, and the first page, which the handler
\* already holds as a parsed document, differs at most in its link.
IsServer(s) ==
  /\ s.endless => s.len = 1
  /\ (s.spPos = 0) = (s.spKind = "page")
  /\ s.spPos > 0 => s.endless \/ s.spPos <= s.len
  /\ s.spPos = 1 => s.spKind \in {"badLink", "emptyLink"}

Init ==
  /\ tool \in Tools
  /\ params \in ParamsOf(tool)
  /\ fetchAllPages \in BOOLEAN
  /\ config \in Configs
  /\ srv \in {s \in Servers : IsServer(s)}
  /\ pc = "start"
  /\ path = <<>>
  /\ isMailEndpoint = FALSE
  /\ text = EmptyObject
  /\ combinedResponse = EmptyObject
  /\ allItems = <<>>
  /\ nextLink = <<>>
  /\ pageCount = 0
  /\ walk = "none"
  /\ fetchLog = <<>>
  /\ result = EmptyObject
  /\ op = "none"
  /\ arg = EmptyObject
  /\ res = EmptyObject
  /\ res2 = EmptyObject

\* Lines 163-282: build the request and send it.
Invoke ==
  /\ pc = "start"
  /\ isMailEndpoint' = IsMailEndpoint(tool)
  /\ path' = RequestPath(tool, params, fetchAllPages, config)
  /\ pc' = "awaitFirst"
  /\ UNCHANGED << tool, params, fetchAllPages, config, srv, text, combinedResponse,
                  allItems, nextLink, pageCount, walk, fetchLog, result >>
  /\ UNCHANGED fvars

\* Lines 339-415: the handler returns what it makes of the response text.
Finish(w) ==
  /\ walk' = w
  /\ result' = Deliver(text', path, config, fetchAllPages, isMailEndpoint)
  /\ pc' = "done"

\* Lines 323-329: the pages are merged into the response text.
Merge(combined) ==
  /\ combinedResponse' = Merged(combined, allItems')
  /\ text' = combinedResponse'

\* Lines 292-305 and 323-336: the test of the loop on the new loop state
\* (combined is combinedResponse, t the response text): the next fetch is
\* sent, or new URL throws and the catch leaves the text as it is, or the loop
\* is over, the pages are merged into the text and the handler returns.
LoopTest(combined, t) ==
  IF TruthyLink(nextLink')
  THEN IF IsUrl(nextLink'[1])
       THEN /\ pc' = "awaitNext"
            /\ walk' = "FETCHING"
            /\ fetchLog' = Append(fetchLog, nextLink'[1])
            /\ combinedResponse' = combined
            /\ text' = t
            /\ UNCHANGED result
       ELSE /\ combinedResponse' = combined
            /\ text' = t
            /\ Finish("FAILED")
            /\ UNCHANGED fetchLog
  ELSE /\ Merge(combined)
       /\ Finish("DONE")
       /\ UNCHANGED fetchLog

\* Lines 282-290: the first response arrives; without fetchAllPages the
\* handler returns it, with fetchAllPages the walk starts from it.
FirstReturn ==
  /\ pc = "awaitFirst"
  /\ IF fetchAllPages
     THEN /\ allItems' = (IF Has(Page(srv, 1), "value") THEN Page(srv, 1).value ELSE <<>>)
          /\ nextLink' = LinkOf(Page(srv, 1))
          /\ pageCount' = 1
          /\ LoopTest(Page(srv, 1), Page(srv, 1))
     ELSE /\ text' = Page(srv, 1)
          /\ Finish("none")
          /\ UNCHANGED <<combinedResponse, allItems, nextLink, pageCount, fetchLog>>
  /\ UNCHANGED <<tool, params, fetchAllPages, config, srv, path, isMailEndpoint>>
  /\ UNCHANGED fvars

\* Lines 305-321: the response to a continuation fetch arrives.
FetchReturn ==
  /\ pc = "awaitNext"
  /\ CASE Respond(srv, nextLink[1]).kind = "throws" ->
            \* caught at line 334: the text stays the first page's
            /\ text' = text
            /\ Finish("FAILED")
            /\ UNCHANGED <<combinedResponse, allItems, nextLink, pageCount, fetchLog>>
       [] Respond(srv, nextLink[1]).kind = "empty" ->
            \* line 319: break
            /\ UNCHANGED <<allItems, nextLink, pageCount, fetchLog>>
            /\ Merge(combinedResponse)
            /\ Finish("DONE")
       [] Respond(srv, nextLink[1]).kind = "json" ->
            /\ allItems' = AppendItems(allItems, Respond(srv, nextLink[1]).json)
            /\ nextLink' = LinkOf(Respond(srv, nextLink[1]).json)
            /\ pageCount' = pageCount + 1
            /\ IF LimitReached(pageCount')
               THEN \* line 316: break
                    /\ Merge(combinedResponse)
                    /\ Finish("ABORTED")
                    /\ UNCHANGED fetchLog
               ELSE LoopTest(combinedResponse, text)
  /\ UNCHANGED <<tool, params, fetchAllPages, config, srv, path, isMailEndpoint>>
  /\ UNCHANGED fvars

Next == Invoke \/ FirstReturn \/ FetchReturn

Spec == Init /\ [][Next]_vars

(***************************************************************************)
(* Page walker: claims                                                     *)
(***************************************************************************)

\* The items of pages lo..hi of the chain, in order (by halves); a page
\* without an items array has none.
RECURSIVE ChainItems(_, _, _)
ChainItems(s, lo, hi) ==
  IF lo > hi THEN <<>>
  ELSE IF lo = hi
  THEN IF Has(Page(s, lo), "value") THEN Page(s, lo).value ELSE <<>>
  ELSE LET mid == (lo + hi) \div 2
       IN ChainItems(s, lo, mid) \o ChainItems(s, mid + 1, hi)

\* The number of pages of a finite chain: it ends early at a page whose
\* link is the empty string.
ChainEnd(s) == IF s.spKind = "emptyLink" THEN s.spPos ELSE s.len

\* A finite chain of at most MaxPages pages, every fetch of which succeeds.
FiniteChain(s) ==
  /\ ~s.endless
  /\ s.len <= MaxPages
  /\ s.spKind \in {"page", "noItems", "emptyLink"}

\* An endless chain: every page carries a link, every fetch succeeds.
EndlessChain(s) == s.endless /\ s.spKind \in {"page", "noItems"}

Returned == pc = "done" /\ fetchAllPages

\* The items of a payload; a payload without an items array has none.
ItemsOf(payload) == IF Has(payload, "value") THEN payload.value ELSE <<>>

\* C1: after the walk of a finite chain of at most 100 pages whose fetches
\* all succeed, the merged result holds the items of every page, in fetch
\* order, and no continuation link.
C1_WalkComplete ==
  (Returned /\ FiniteChain(srv)) =>
    /\ walk = "DONE"
    /\ combinedResponse.value = ChainItems(srv, 1, ChainEnd(srv))
    /\ ~Has(combinedResponse, NEXTLINK)
    /\ text = combinedResponse

C1_Witness ==
  /\ Returned
  /\ FiniteChain(srv)
  /\ srv.len = MaxPages
  /\ srv.spPos = 0
  /\ pageCount = MaxPages
  /\ Len(combinedResponse.value) > MaxPages \div 2

\* C2: the number of pages taken into the result, the first page counted as
\* page 1, never exceeds 100.
C2_AtMostMaxPages == pageCount <= MaxPages

\* C3: on an endless chain whose fetches all succeed the walk ends, after
\* exactly 100 continuation fetches: there are never more than 100, each
\* step of the walk is one more fetch, and the handler returns at 100.
C3_RunawayStops ==
  (fetchAllPages /\ EndlessChain(srv)) =>
    /\ Len(fetchLog) <= MaxPages
    /\ pc = "awaitNext" => Len(fetchLog) = pageCount
    /\ pc = "done" => Len(fetchLog) = MaxPages /\ walk = "ABORTED"

C3_Witness ==
  /\ Returned
  /\ EndlessChain(srv)
  /\ walk = "ABORTED"
  /\ Len(fetchLog) = MaxPages

\* C4: when a continuation fetch fails, the text handed to the dispatcher
\* holds the items of the first page and of every page fetched before the
\* failure, and the handler does not fail.
C4_PartialResultKept ==
  (Returned /\ walk = "FAILED") =>
    /\ ItemsOf(text) = allItems
    /\ ~result.isError

\* C5: when the walk ends (DONE or ABORTED) and the first page had a count,
\* the count of the merged result is the number of merged items.
C5_CountIsItemCount ==
  (Returned /\ walk \in {"DONE", "ABORTED"} /\ srv.count # <<>>) =>
    combinedResponse[COUNT] = Len(combinedResponse.value)

\* C10: with fetchAllPages the collection returned to the caller holds every
\* item the walk assembled: the collection reducer drops none.
C10_NoRetruncation ==
  (Returned /\ walk \in {"DONE", "ABORTED"}) =>
    Len(ItemsOf(result.json)) = Len(allItems)

\* C16: when a continuation fetch returns a page without an items array,
\* the walk appends nothing and ends (DONE) without a further fetch, also
\* when that page carries a link.
C16_StopsOnMissingItems ==
  (fetchAllPages /\ srv.spKind = "noItems" /\ pageCount >= srv.spPos) =>
    /\ pc = "done"
    /\ walk = "DONE"
    /\ Len(fetchLog) = srv.spPos - 1
    /\ allItems = ChainItems(srv, 1, srv.spPos - 1)

\* C17: fetching is strictly sequential: a fetch is sent only after the page
\* before it was taken in, so that at most one is outstanding; the token of
\* the n-th fetch is the link of the page the fetch before it returned (of
\* the first page for n = 1); and of a chain that repeats no token, no token
\* is fetched twice.
C17_Sequential ==
  /\ Len(fetchLog) <= pageCount
  /\ pc = "awaitNext" => Len(fetchLog) = pageCount
  /\ \A n \in 1..Len(fetchLog) :
       LET before == IF n = 1 THEN 1 ELSE fetchLog[n - 1]
       IN /\ Has(Page(srv, before), NEXTLINK)
          /\ fetchLog[n] = Page(srv, before)[NEXTLINK]
  /\ \A m, n \in 1..Len(fetchLog) : fetchLog[m] = fetchLog[n] => m = n

C17_Witness ==
  /\ pc = "awaitNext"
  /\ Len(fetchLog) = MaxShortChain - 1
  /\ fetchLog[Len(fetchLog)] = MaxShortChain
  /\ Len(allItems) > MaxPerPage

\* C19: the two mail tests of an invocation agree: the test on the path
\* template and the alias, which raises the ceiling, holds exactly when the
\* test on the final request path, which lets the reducers run, holds.
C19_MailTestsAgree ==
  pc # "start" => (isMailEndpoint <=> IsMailLike(path))

(***************************************************************************)
(* The reducers as functions.  No request is in progress: the handler's    *)
(* variables keep the values below, and an action applies one function of  *)
(* response-optimizer.ts to the input arg.                                 *)
(***************************************************************************)

NoRequest ==
  /\ tool = ToolMail
  /\ params = <<>>
  /\ fetchAllPages = FALSE
  /\ config = DEFAULT_LLM_OPTIMIZATION
  /\ srv = EmptyObject
  /\ pc = "idle"
  /\ path = <<>>
  /\ isMailEndpoint = FALSE
  /\ text = EmptyObject
  /\ combinedResponse = EmptyObject
  /\ allItems = <<>>
  /\ nextLink = <<>>
  /\ pageCount = 0
  /\ walk = "none"
  /\ fetchLog = <<>>
  /\ result = EmptyObject

\* Sequences over S of length at most n.
SeqUpTo(S, n) == UNION {[1..k -> S] : k \in 0..n}

(***************************************************************************)
(* Collection reducer: inputs and claims                                   *)
(***************************************************************************)

MaxItems == 3

MailA ==
  [ id |-> <<"A">>,
    subject |-> <<"s">>,
    conversationId |-> <<"c">>,
    body |-> [contentType |-> "html", content |-> <<"<", "b", ">", "h", "i">>] ]

MailB ==
  [ id |-> <<"B">>,
    webLink |-> <<"w">>,
    toRecipients |-> << [emailAddress |-> [name |-> <<"n">>, address |-> <<"a">>]] >> ]

MailC == [id |-> <<"C">>]

Mails == {MailA, MailB, MailC}

ReduceCounts == {0, 1, 7}

\* Collections of at most MaxItems entities with or without a count, and
\* responses without an item list.
ReducePages ==
  LET lists == SeqUpTo(Mails, MaxItems)
  IN    {[value |-> l] : l \in lists}
   \cup {(COUNT :> c) @@ [value |-> l] : l \in lists, c \in ReduceCounts}
   \cup {EmptyObject}
   \cup {(COUNT :> c) : c \in ReduceCounts}

ReduceConfigs ==
  { [DEFAULT_LLM_OPTIMIZATION EXCEPT !.maxItemsInCollection = n] :
      n \in (1..SmallMaxItems) \cup {DefaultMaxItemsInCollection} }

InitReduce ==
  /\ NoRequest
  /\ op = "none"
  /\ arg \in [page : ReducePages, config : ReduceConfigs]
  /\ res = EmptyObject
  /\ res2 = EmptyObject

ReduceCollection ==
  /\ op = "none"
  /\ op' = "optimizeMailCollection"
  /\ res' = optimizeMailCollection(arg.page, arg.config)
  /\ UNCHANGED <<arg, res2>>
  /\ UNCHANGED hvars

NextReduce == ReduceCollection

SpecReduce == InitReduce /\ [][NextReduce]_vars

Min(a, b) == IF a < b THEN a ELSE b

CollectionReduced == op = "optimizeMailCollection" /\ Has(arg.page, "value")

\* C6: the collection reducer returns at most maxItemsInCollection items:
\* the reductions of the first min(length, maxItemsInCollection) items of
\* the page, in their order.
C6_StablePrefix ==
  CollectionReduced =>
    LET items == arg.page.value
        n == Min(Len(items), arg.config.maxItemsInCollection)
    IN /\ Len(res.value) = n
       /\ Len(res.value) <= arg.config.maxItemsInCollection
       /\ \A i \in 1..n : res.value[i] = optimizeMailMessage(items[i], arg.config)

C6_Witness ==
  /\ CollectionReduced
  /\ Len(arg.page.value) > arg.config.maxItemsInCollection
  /\ arg.config.maxItemsInCollection >= 2
  /\ arg.page.value[1] = MailA
  /\ arg.page.value[2] = MailB
  /\ arg.page.value[Len(arg.page.value)] = MailC
  /\ res.value[1] # MailA

\* C7: when the page has a count, whatever its value, the count of the
\* reduced collection is the number of items it returns.
C7_CountIsLength ==
  (CollectionReduced /\ Has(arg.page, COUNT)) =>
    /\ Has(res, COUNT)
    /\ res[COUNT] = Len(res.value)

(***************************************************************************)
(* Content normaliser and body reducer: inputs and claims                  *)
(***************************************************************************)

MaxTokens == 2
SmallMaxSize == 3

\* The pieces the contents are made of: text, white space, tags, entity
\* references whole and in halves, a numeric reference to an invisible code
\* point and an invisible character, embedded and inline images.
Tokens ==
  { <<"a">>,
    <<" ">>,
    <<"\n">>,
    <<"\r">>,
    <<"<", "b", ">">>,
    <<"<", "/", "P", ">">>,
    <<"&", "l", "t", ";">>,
    <<"b", "&", "g", "t", ";">>,
    <<"&", "a", "m", "p", ";">>,
    <<"n", "b", "s", "p", ";">>,
    <<"&", "#", "6", "5", "2", "7", "9", ";", CGJ>>,
    <<"<", "i", "m", "g", " ", "s", "r", "c", "=", "\"", "d", "a", "t", "a", ":", "x", "\"", ">">>,
    <<"<", "i", "m", "g", " ", "s", "r", "c", "=", "'", "c", "i", "d", ":", "y", "'", ">">> }

RECURSIVE Flat(_)
Flat(ts) == IF ts = <<>> THEN <<>> ELSE Head(ts) \o Flat(Tail(ts))

Contents == {Flat(ts) : ts \in SeqUpTo(Tokens, MaxTokens)}

Bodies == [contentType : {"html", "text"}, content : Contents]

TextConfigs ==
  { [DEFAULT_LLM_OPTIMIZATION EXCEPT
       !.maxHtmlContentSize = n, !.stripHtmlToText = st,
       !.removeEmbeddedImages = im, !.removeInlineAttachments = at] :
      n \in {SmallMaxSize, DefaultMaxHtmlContentSize},
      st \in BOOLEAN, im \in BOOLEAN, at \in BOOLEAN }

InitText ==
  /\ NoRequest
  /\ op = "none"
  /\ arg \in [body : Bodies, config : TextConfigs]
  /\ res = EmptyObject
  /\ res2 = EmptyObject

Normalize ==
  /\ op = "none"
  /\ op' = "stripHtmlTags"
  /\ res' = stripHtmlTags(arg.body.content)
  /\ UNCHANGED <<arg, res2>>
  /\ UNCHANGED hvars

NormalizeAgain ==
  /\ op = "stripHtmlTags"
  /\ op' = "stripHtmlTags twice"
  /\ res2' = stripHtmlTags(res)
  /\ UNCHANGED <<arg, res>>
  /\ UNCHANGED hvars

ReduceBody ==
  /\ op = "none"
  /\ op' = "optimizeMessageBody"
  /\ res' = optimizeMessageBody(arg.body, arg.config)
  /\ UNCHANGED <<arg, res2>>
  /\ UNCHANGED hvars

NextText == Normalize \/ NormalizeAgain \/ ReduceBody

SpecText == InitText /\ [][NextText]_vars

\* The content before the size cap: media reduced, tags stripped when the
\* reducer strips them.
BeforeCap(body, c) ==
  IF StripApplies(body, ReduceMedia(body.content, c), c)
  THEN stripHtmlTags(ReduceMedia(body.content, c))
  ELSE ReduceMedia(body.content, c)

TruncatedLength == Len(TRUNCATED)

\* C8: the content the body reducer returns is at most maxHtmlContentSize
\* + 14 characters long; when the content after media reduction and tag
\* stripping is longer than maxHtmlContentSize the result is its first
\* maxHtmlContentSize characters followed by '...[TRUNCATED]', and otherwise
\* it is that content, without suffix.
C8_BodySizeBound ==
  (op = "optimizeMessageBody" /\ arg.body.content # <<>>) =>
    LET max == arg.config.maxHtmlContentSize
        mid == BeforeCap(arg.body, arg.config)
    IN /\ TruncatedLength = 14
       /\ Len(res.content) <= max + 14
       /\ Len(mid) > max => res.content = SubSeq(mid, 1, max) \o TRUNCATED
       /\ Len(mid) <= max => res.content = mid

C8_Witness ==
  /\ op = "optimizeMessageBody"
  /\ arg.config.maxHtmlContentSize = SmallMaxSize
  /\ Len(arg.body.content) > SmallMaxSize + 1
  /\ Len(BeforeCap(arg.body, arg.config)) = SmallMaxSize + 1
  /\ BeforeCap(arg.body, arg.config) # arg.body.content
  /\ Len(res.content) = SmallMaxSize + 14

\* A tag or an entity reference the normaliser would still rewrite.
Decodable(s) ==
  \E i \in 1..Len(s) :
    \E rx \in {"tag", "nbsp", "amp", "lt", "gt", "quot", "apos"} :
      MatchLen(rx, s, i) > 0

\* C9: normalising twice gives the same as normalising once, for every
\* string.
C9_Idempotent ==
  op = "stripHtmlTags twice" => res2 = res

\* C9, amended: normalising twice gives the same as normalising once
\* exactly when the first result holds no tag and no entity reference, that
\* is when entity decoding produced no new markup and no new entity.
C9_IdempotentUnlessDecodable ==
  op = "stripHtmlTags twice" => (res2 = res <=> ~Decodable(res))

C9_Witness ==
  /\ op = "stripHtmlTags twice"
  /\ arg.body.content # res
  /\ res # <<>>
  /\ ~Decodable(res)
  /\ res2 = res

\* The numeric reference to the invisible code point U+FEFF.
BOMReference == <<"&", "#", "6", "5", "2", "7", "9", ";">>

\* C14: the normaliser's result holds no reference to an invisible code
\* point and no invisible character.
C14_NoInvisible ==
  op = "stripHtmlTags" =>
    /\ ~Includes(res, BOMReference)
    /\ ~Includes(res, <<BOM>>)
    /\ ~Includes(res, <<CGJ>>)

MaxRecipients == 2

GoodRecipient == [emailAddress |-> [name |-> <<"n">>, address |-> <<"a">>]]

BareRecipient == [emailAddress |-> [address |-> <<"a">>]]

RecipientLists == SeqUpTo({GoodRecipient, BareRecipient, JNull}, MaxRecipients)

\* A field k with one of the values V, or without it.
Optional(k, V) == {EmptyObject} \cup {(k :> v) : v \in V}

\* The nine metadata fields of a message that are of no use to the reader.
MetadataFields ==
  { "conversationId", "conversationIndex", "internetMessageId", "webLink",
    "changeKey", "parentFolderId", "inferenceClassification", "flag",
    "categories" }

AllDenied == [f \in MetadataFields |-> <<"m">>]

\* Entities: an id and any of: a subject (empty or not), a body (null or
\* not), metadata fields, a recipient list, a sender with or without an
\* emailAddress, a field no reducer knows.
Entities ==
  { [id |-> <<"1">>] @@ sub @@ bod @@ den @@ rcp @@ snd @@ oth :
      sub \in Optional("subject", {<<>>, <<"s">>}),
      bod \in Optional("body", {JNull, MailA.body}),
      den \in {EmptyObject, [conversationId |-> <<"c">>], AllDenied},
      rcp \in Optional("toRecipients", RecipientLists),
      snd \in Optional("from", {GoodRecipient, [name |-> <<"x">>]}),
      oth \in Optional("isRead", {<<"t">>}) }

\* An entity whose recipient list holds a null.
MailN == [id |-> <<"N">>, subject |-> <<"s">>, toRecipients |-> <<GoodRecipient, JNull>>]

EntityPages == {[value |-> l] : l \in SeqUpTo({MailA, MailB, MailN, JNull}, 2)}

Endpoints ==
  { <<"/", "m", "e", "/", "m", "e", "s", "s", "a", "g", "e", "s">>,
    <<"/", "m", "e", "/", "m", "a", "i", "l", "F", "o", "l", "d", "e", "r", "s">>,
    <<"/", "m", "e", "/", "e", "v", "e", "n", "t", "s">> }

InitEntity ==
  /\ NoRequest
  /\ op = "none"
  /\ arg \in [payload : Entities \cup EntityPages, endpoint : Endpoints, config : ReduceConfigs]
  /\ res = EmptyObject
  /\ res2 = EmptyObject

\* The call ends in fn's result, or in an exception.
Returns(fn, raises, value) ==
  /\ op = "none"
  /\ IF raises
     THEN op' = "TypeError" /\ res' = EmptyObject
     ELSE op' = fn /\ res' = value
  /\ UNCHANGED <<arg, res2>>
  /\ UNCHANGED hvars

ReduceEntity ==
  /\ arg.payload \in Entities
  /\ Returns("optimizeMailMessage",
             optimizeMailMessageRaises(arg.payload),
             optimizeMailMessage(arg.payload, arg.config))

ReducePage ==
  /\ arg.payload \in EntityPages
  /\ Returns("optimizeMailCollection",
             optimizeMailCollectionRaises(arg.payload, arg.config),
             optimizeMailCollection(arg.payload, arg.config))

Dispatch ==
  Returns("optimizeResponse",
          optimizeResponseRaises(arg.payload, arg.endpoint, arg.config),
          optimizeResponse(arg.payload, arg.endpoint, arg.config))

\* The handler's delivery of a response text that is the payload.
DeliverPayload ==
  Returns("deliver", FALSE,
          Deliver(arg.payload, arg.endpoint, arg.config, FALSE, FALSE))

NextEntity == ReduceEntity \/ ReducePage \/ Dispatch \/ DeliverPayload

SpecEntity == InitEntity /\ [][NextEntity]_vars

\* C11: for an endpoint that is not mail-like the dispatcher returns the
\* payload and the text delivered is the original; for a mail-like one a
\* payload with an item list goes to the collection reducer, one without
\* but with a subject or a body to the entity reducer, and any other is
\* returned as it is.
C11_Gating ==
  /\ op = "optimizeResponse" =>
       res = IF ~IsMailLike(arg.endpoint) THEN arg.payload
             ELSE IF Has(arg.payload, "value")
             THEN optimizeMailCollection(arg.payload, arg.config)
             ELSE IF Has(arg.payload, "subject") \/ HasObject(arg.payload, "body")
             THEN optimizeMailMessage(arg.payload, arg.config)
             ELSE arg.payload
  /\ (op = "deliver" /\ ~IsMailLike(arg.endpoint)) =>
       res.json = arg.payload /\ ~res.reformatted

\* C12: the entity reducer's result has none of the nine metadata fields;
\* every field of the entity other than the body, the metadata fields, the
\* recipient lists and sender / from is in it with its value; and it has no
\* field the entity has not.
C12_EntityFrame ==
  op = "optimizeMailMessage" =>
    /\ DOMAIN res \cap MetadataFields = {}
    /\ Cardinality(MetadataFields) = 9
    /\ \A f \in DOMAIN arg.payload \
              (MetadataFields \cup {"body", "toRecipients", "ccRecipients",
                                   "bccRecipients", "sender", "from"}) :
         Has(res, f) /\ res[f] = arg.payload[f]
    /\ DOMAIN res \subseteq DOMAIN arg.payload

C12_Witness ==
  /\ op = "optimizeMailMessage"
  /\ MetadataFields \subseteq DOMAIN arg.payload
  /\ Has(arg.payload, "isRead")
  /\ Has(arg.payload, "subject")
  /\ Has(arg.payload, "toRecipients")
  /\ Len(arg.payload.toRecipients) = MaxRecipients
  /\ Has(arg.payload, "from")
  /\ DOMAIN res = DOMAIN arg.payload \ MetadataFields

\* C13: the reducers and the dispatcher return a value: no call ends in an
\* exception.
C13_NeverRaises == op # "TypeError"

(***************************************************************************)
(* The reducers on the heap.  A JavaScript object has an identity: the     *)
(* heap is the sequence of the objects allocated so far, a reference is an *)
(* index of it, a field holds a boxed string, number or reference and an   *)
(* array is an object whose field array lists its elements' references.    *)
(* Each statement of response-optimizer.ts that allocates or assigns is    *)
(* an allocation or a write to the object the code names.                  *)
(***************************************************************************)

Str(s) == [str |-> s]
Num(n) == [num |-> n]
Ref(r) == [ref |-> r]

\* { ...obj }: a new object with the fields of obj.  The state of a
\* function under way is the heap and the reference of the object it
\* builds.
SpreadAlias(h, r) == [h |-> h, ref |-> r]

Spread(h, r) == [h |-> Append(h, h[r]), ref |-> Len(h) + 1]

\* optimized[k] = v
Write(st, k, v) == [st EXCEPT !.h[st.ref] = Put(@, k, v)]

\* delete optimized[k], for the k of K
Remove(st, K) == [st EXCEPT !.h[st.ref] = Delete(@, K)]

\* A body object and its value.
Unbox(obj) == [k \in DOMAIN obj |-> obj[k].str]

Box(obj) == [k \in DOMAIN obj |-> Str(obj[k])]

\* Lines 120-130: optimizedBody.contentType = ..., optimizedBody.content = ...
AssignBody(st, out) == [st EXCEPT !.h[st.ref] = Box(out)]

\* optimizeMessageBody, lines 99-134
heapOptimizeMessageBody(h, b, cfg) ==
  AssignBody(Spread(h, b), optimizeMessageBody(Unbox(h[b]), cfg))

\* Line 146: optimized.body = optimizeMessageBody(message.body, cfg)
AttachBody(st, body) ==
  [h |-> [body.h EXCEPT ![st.ref] = Put(@, "body", Ref(body.ref))], ref |-> st.ref]

ReduceBodyRef(st, m, cfg) ==
  IF Has(st.h[m], "body")
  THEN AttachBody(st, heapOptimizeMessageBody(st.h, st.h[m].body.ref, cfg))
  ELSE st

\* Lines 163-166, 173-176: a new object { name, address }
FlatObject(h, r) ==
  IF Has(h[r], "emailAddress")
  THEN [k \in DOMAIN h[h[r].emailAddress.ref] \cap {"name", "address"} |->
          h[h[r].emailAddress.ref][k]]
  ELSE EmptyObject

\* Lines 163-166: Array.prototype.map allocates an object for each element.
RECURSIVE FlattenEach(_, _, _, _)
FlattenEach(h, elems, i, out) ==
  IF i > Len(elems) THEN [h |-> h, refs |-> out]
  ELSE FlattenEach(Append(h, FlatObject(h, elems[i])), elems, i + 1,
                   Append(out, Len(h) + 1))

\* optimized[f] = the new array
AttachArray(st, f, mapped) ==
  [ h |-> [Append(mapped.h, [array |-> mapped.refs])
             EXCEPT ![st.ref] = Put(@, f, Ref(Len(mapped.h) + 1))],
    ref |-> st.ref ]

\* Lines 161-168, for one field
SimplifyRecipientField(st, f) ==
  IF Has(st.h[st.ref], f)
  THEN AttachArray(st, f, FlattenEach(st.h, st.h[st.h[st.ref][f].ref].array, 1, <<>>))
  ELSE st

\* optimized[f] = the new object
AttachObject(st, f, obj) ==
  [ h |-> [Append(st.h, obj) EXCEPT ![st.ref] = Put(@, f, Ref(Len(st.h) + 1))],
    ref |-> st.ref ]

\* Lines 171-178, for one field
SimplifySenderField(st, f) ==
  IF Has(st.h[st.ref], f) /\ Has(st.h[st.h[st.ref][f].ref], "emailAddress")
  THEN AttachObject(st, f, FlatObject(st.h, st.h[st.ref][f].ref))
  ELSE st

\* Lines 161-178: forEach over the recipient fields, then the sender fields
RECURSIVE SimplifyFields(_, _, _)
SimplifyFields(st, fields, i) ==
  IF i > Len(fields) THEN st
  ELSE SimplifyFields(IF fields[i] \in RecipientFields
                      THEN SimplifyRecipientField(st, fields[i])
                      ELSE SimplifySenderField(st, fields[i]),
                      fields, i + 1)

AddressFields == <<"toRecipients", "ccRecipients", "bccRecipients", "sender", "from">>

\* optimizeMailMessage, lines 139-181
heapOptimizeMailMessage(h, m, cfg) ==
  SimplifyFields(Remove(ReduceBodyRef(Spread(h, m), m, cfg), Denylist),
                 AddressFields, 1)

\* Line 200: items.map(optimizeMailMessage)
RECURSIVE ReduceEach(_, _, _, _, _)
ReduceEachNext(st, elems, i, out, cfg) ==
  ReduceEach(st.h, elems, i + 1, Append(out, st.ref), cfg)

ReduceEach(h, elems, i, out, cfg) ==
  IF i > Len(elems) THEN [h |-> h, refs |-> out]
  ELSE ReduceEachNext(heapOptimizeMailMessage(h, elems[i], cfg), elems, i, out, cfg)

\* Lines 203-205
WriteCount(st) ==
  IF Has(st.h[st.ref], COUNT) /\ Truthy(st.h[st.ref][COUNT].num)
  THEN Write(st, COUNT, Num(Len(st.h[st.h[st.ref].value.ref].array)))
  ELSE st

\* optimizeMailCollection, lines 186-209
heapOptimizeMailCollection(h, r, cfg) ==
  IF Has(h[r], "value")
  THEN WriteCount(AttachArray(Spread(h, r), "value",
         ReduceEach(Append(h, h[r]), LimitItems(h[h[r].value.ref].array, cfg),
                    1, <<>>, cfg)))
  ELSE Spread(h, r)

\* Line 233, on the heap
heapSubjectOrBody(obj) ==
  \/ Has(obj, "subject") /\ obj.subject.str # <<>>
  \/ Has(obj, "body")

\* optimizeResponse, lines 221-240: the reducer's new object, or the
\* response itself.
heapOptimizeResponse(h, r, endpoint, cfg) ==
  IF IsMailLike(endpoint) /\ Has(h[r], "value")
  THEN heapOptimizeMailCollection(h, r, cfg)
  ELSE IF IsMailLike(endpoint) /\ heapSubjectOrBody(h[r])
  THEN heapOptimizeMailMessage(h, r, cfg)
  ELSE [h |-> h, ref |-> r]

(***************************************************************************)
(* The reducers on the heap: inputs and claims                             *)
(***************************************************************************)

MaxHeapItems == 2

\* The parts a stored message is made of, besides its id.
MessageShapes ==
  { <<>>,
    <<"body", "meta">>,
    <<"to", "from">>,
    <<"body", "to", "from", "meta">> }

StoredAddress == [name |-> Str(<<"n">>), address |-> Str(<<"a">>)]

\* Allocate a part of the message obj and set its field.
AddPart(st, part) ==
  CASE part = "body" ->
         [ h |-> Append(st.h, Box(MailA.body)),
           obj |-> Put(st.obj, "body", Ref(Len(st.h) + 1)) ]
    [] part = "to" ->
         [ h |-> st.h \o << StoredAddress,
                            [emailAddress |-> Ref(Len(st.h) + 1)],
                            [array |-> <<Len(st.h) + 2>>] >>,
           obj |-> Put(st.obj, "toRecipients", Ref(Len(st.h) + 3)) ]
    [] part = "from" ->
         [ h |-> st.h \o << StoredAddress, [emailAddress |-> Ref(Len(st.h) + 1)] >>,
           obj |-> Put(st.obj, "from", Ref(Len(st.h) + 2)) ]
    [] part = "meta" ->
         [ h |-> st.h,
           obj |-> Put(Put(st.obj, "conversationId", Str(<<"c">>)), "subject", Str(<<"s">>)) ]

RECURSIVE AddParts(_, _, _)
AddParts(st, parts, i) ==
  IF i > Len(parts) THEN st ELSE AddParts(AddPart(st, parts[i]), parts, i + 1)

\* The heap with one more message, and the references of the messages.
StoreMessage(st, built) ==
  [h |-> Append(built.h, built.obj), refs |-> Append(st.refs, Len(built.h) + 1)]

RECURSIVE StoreMessages(_, _, _)
StoreMessages(st, shapes, i) ==
  IF i > Len(shapes) THEN st
  ELSE StoreMessages(
         StoreMessage(st, AddParts([h |-> st.h, obj |-> [id |-> Str(<<"i">>)]], shapes[i], 1)),
         shapes, i + 1)

\* The heap of a collection: its messages, its item array and the response.
StoreCollection(st, count) ==
  [ h |-> st.h \o << [array |-> st.refs],
                     IF count = <<>> THEN [value |-> Ref(Len(st.h) + 1)]
                     ELSE (COUNT :> Num(count[1])) @@ [value |-> Ref(Len(st.h) + 1)] >>,
    root |-> Len(st.h) + 2 ]

StoredCollections ==
  { StoreCollection(StoreMessages([h |-> <<>>, refs |-> <<>>], shapes, 1), count) :
      shapes \in SeqUpTo(MessageShapes, MaxHeapItems), count \in {<<>>, <<0>>, <<7>>} }

\* The JSON value of a boxed value of the heap.
RECURSIVE Read(_, _)
Read(h, v) ==
  IF Has(v, "str") THEN v.str
  ELSE IF Has(v, "num") THEN v.num
  ELSE IF Has(h[v.ref], "array")
  THEN [i \in 1..Len(h[v.ref].array) |-> Read(h, Ref(h[v.ref].array[i]))]
  ELSE [k \in DOMAIN h[v.ref] |-> Read(h, h[v.ref][k])]

InitHeap ==
  /\ NoRequest
  /\ op = "none"
  /\ arg \in {[h |-> c.h, root |-> c.root, config |-> cfg] :
                c \in StoredCollections, cfg \in ReduceConfigs}
  /\ res = EmptyObject
  /\ res2 = EmptyObject

\* The references of the messages of the collection.
StoredItems == arg.h[arg.h[arg.root].value.ref].array

Applied(fn, input, st) ==
  /\ op = "none"
  /\ op' = fn
  /\ res' = st
  /\ res2' = input
  /\ UNCHANGED arg
  /\ UNCHANGED hvars

HeapReduceBody ==
  \E i \in 1..Len(StoredItems) :
    /\ Has(arg.h[StoredItems[i]], "body")
    /\ Applied("optimizeMessageBody", arg.h[StoredItems[i]].body.ref,
               heapOptimizeMessageBody(arg.h, arg.h[StoredItems[i]].body.ref, arg.config))

HeapReduceEntity ==
  \E i \in 1..Len(StoredItems) :
    Applied("optimizeMailMessage", StoredItems[i],
            heapOptimizeMailMessage(arg.h, StoredItems[i], arg.config))

HeapReduceCollection ==
  Applied("optimizeMailCollection", arg.root,
          heapOptimizeMailCollection(arg.h, arg.root, arg.config))

HeapDispatch ==
  \E e \in Endpoints :
    Applied("optimizeResponse", arg.root,
            heapOptimizeResponse(arg.h, arg.root, e, arg.config))

NextHeap == HeapReduceBody \/ HeapReduceEntity \/ HeapReduceCollection \/ HeapDispatch

SpecHeap == InitHeap /\ [][NextHeap]_vars

\* C18: when a reducer or the dispatcher has returned, every object of the
\* input (the body, the entity and its recipient lists, the page, its item
\* list and count) is as it was: what the reducer removes, flattens,
\* truncates or rewrites is in new objects, and the value returned is the
\* reducer's result.
C18_InputUnchanged ==
  op # "none" =>
    /\ Len(res.h) >= Len(arg.h)
    /\ \A r \in 1..Len(arg.h) : res.h[r] = arg.h[r]
    /\ op = "optimizeMessageBody" =>
         Read(res.h, Ref(res.ref)) = optimizeMessageBody(Read(arg.h, Ref(res2)), arg.config)
    /\ op = "optimizeMailMessage" =>
         Read(res.h, Ref(res.ref)) = optimizeMailMessage(Read(arg.h, Ref(res2)), arg.config)
    /\ op = "optimizeMailCollection" =>
         Read(res.h, Ref(res.ref)) = optimizeMailCollection(Read(arg.h, Ref(res2)), arg.config)

C18_Witness ==
  /\ op = "optimizeMailCollection"
  /\ Len(StoredItems) > arg.config.maxItemsInCollection
  /\ Has(arg.h[arg.root], COUNT)
  /\ res.h[res.ref][COUNT] # arg.h[arg.root][COUNT]
  /\ Has(arg.h[StoredItems[1]], "conversationId")
  /\ Has(arg.h[StoredItems[1]], "toRecipients")
  /\ Has(arg.h[StoredItems[1]], "body")
  /\ res.ref > Len(arg.h)
  /\ Len(res.h) > Len(arg.h) + 4

====
